---- MODULE Spec2Model ----
(***************************************************************************)
(* Model of generate_tools_json.py: the discovery driver (main,            *)
(* search_go_tools), the entrypoint resolver (find_cli_entrypoints), the   *)
(* rate-limited fetcher (api_get, check_rate_limit) and the persistence    *)
(* gateway (upsert_binary, load/save_scanned_repos).                       *)
(*                                                                         *)
(* Four specifications share the variables:                                *)
(*   Spec          runs of main() against a search collaborator that may   *)
(*                 answer every page request with anything;                *)
(*   SpecStable    the same runs against an unchanging search collaborator;*)
(*   SpecGateway   upsert_binary called with arbitrary records;            *)
(*   SpecFetcher   api_get / check_rate_limit against a wall clock.        *)
(***************************************************************************)
EXTENDS Integers, Sequences, FiniteSets, TLC

(***************************************************************************)
(* Bounds of the model.                                                    *)
(***************************************************************************)
NumRepos == 2        \* repositories the search collaborator knows
MaxItems == 2        \* items on one search page (RESULTS_PER_PAGE, scaled)
WorldPageSize == 1   \* the same, for the unchanging collaborator of SpecStable
NumQueries == 2      \* prefix of SEARCH_QUERIES that is explored
MaxRuns == 2         \* invocations of main()
MaxCalls == 3        \* calls of upsert_binary (SpecGateway)
MaxClock == 14       \* last second of the wall clock
MaxLatency == 1      \* seconds between a request and its response
MaxTicks == 2        \* seconds that pass between upsert calls (SpecGateway)

(***************************************************************************)
(* Program constants.                                                      *)
(***************************************************************************)
SEARCH_QUERIES ==
    << "topic:go+topic:cli", "topic:golang+topic:cli", "topic:go+topic:tool",
       "topic:golang+topic:tool", "topic:go+topic:devtools",
       "language:go+topic:cli", "language:go+topic:command-line" >>
MAX_PAGES_PER_QUERY == 3
RATE_LIMIT_BUFFER == 10
FIXED_GRACE == 5     \* the "+ 5" of the rate-limit wait
PAGE_DELAY == 2      \* time.sleep(2) between search pages
GORELEASER_PATHS ==
    << ".goreleaser.yml", ".goreleaser.yaml", "goreleaser.yml", "goreleaser.yaml" >>

None == "None"       \* Python's None / JSON null / SQL NULL

\* the queries the loop of search_go_tools goes through
Queries == SubSeq(SEARCH_QUERIES, 1, NumQueries)

(***************************************************************************)
(* The search collaborator's repositories.  A repository has one numeric   *)
(* id and one owner/name; both identify it.                                *)
(***************************************************************************)
RepoIds == 1..NumRepos

Item(id) ==
    [ id |-> id,
      name |-> "r" \o ToString(id),
      owner |-> [login |-> "o" \o ToString(id)],
      description |-> IF id % 2 = 0 THEN None ELSE "d" \o ToString(id),
      stargazers_count |-> id * 5,
      html_url |-> "https://github.com/o" \o ToString(id) \o "/r" \o ToString(id) ]

\* repo_key = f"{owner}/{name}"
RepoKey(item) == item.owner.login \o "/" \o item.name

Keys == { RepoKey(Item(id)) : id \in RepoIds }

\* Position of a key in Python's string order; the keys o<i>/r<i> compare
\* like their index i (single digit).
KeyRank(k) == CHOOSE id \in RepoIds : RepoKey(Item(id)) = k

RECURSIVE Sorted(_)
Sorted(S) ==
    IF S = {} THEN << >>
    ELSE LET m == CHOOSE k \in S : \A o \in S : KeyRank(k) <= KeyRank(o)
         IN  << m >> \o Sorted(S \ {m})

Range(s) == { s[j] : j \in 1..Len(s) }

RECURSIVE SeqsUpTo(_, _)
SeqsUpTo(S, n) ==
    IF n = 0 THEN { << >> }
    ELSE LET shorter == SeqsUpTo(S, n - 1)
         IN  shorter \cup { Append(s, x) : s \in shorter, x \in S }

(***************************************************************************)
(* Collaborator responses.                                                 *)
(***************************************************************************)
\* search: a non-success status, or 200 with a (possibly empty) item list
SearchResponses ==
    { [status |-> 403, items |-> << >>] }
    \cup { [status |-> 200, items |-> s] : s \in SeqsUpTo(RepoIds, MaxItems) }

\* contents of cmd/: not found, a single-file descriptor, or a listing
DirEntries ==
    { << [name |-> "README.md", type |-> "file"] >>,
      << [name |-> "b", type |-> "dir"],
         [name |-> "doc.go", type |-> "file"],
         [name |-> "a", type |-> "dir"] >> }

CmdResponses ==
    { [status |-> 404, isList |-> FALSE, data |-> << >>],
      [status |-> 200, isList |-> FALSE, data |-> << >>] }
    \cup { [status |-> 200, isList |-> TRUE, data |-> d] : d \in DirEntries }

\* status of the contents probe of a root file
FileStatuses == { 200, 404 }

\* An unchanging search collaborator: every query has a status and a ranked
\* result list, served WorldPageSize at a time.  The request asks for
\* sort=stars, order=desc: the matching repositories by falling stars.
RankedLists ==
    { s \in SeqsUpTo(RepoIds, NumRepos) :
        \A j, k \in 1..Len(s) :
            j < k => Item(s[j]).stargazers_count > Item(s[k]).stargazers_count }

QueryWorlds ==
    { [status |-> 422, results |-> << >>] }
    \cup { [status |-> 200, results |-> s] : s \in RankedLists }

Worlds == [ DOMAIN Queries -> QueryWorlds ]

Min(a, b) == IF a <= b THEN a ELSE b
Max(a, b) == IF a >= b THEN a ELSE b

WorldPage(w, p) ==
    IF w.status # 200 THEN [status |-> w.status, items |-> << >>]
    ELSE [ status |-> 200,
           items |-> SubSeq(w.results, (p - 1) * WorldPageSize + 1,
                            Min(p * WorldPageSize, Len(w.results))) ]

\* latest release: not found, or 200 with a JSON object that may lack tag_name
ReleaseResponses ==
    { [status |-> 404, json |-> << >>],
      [status |-> 200, json |-> << >>],
      [status |-> 200, json |-> [tag_name |-> "v1"]] }

\* dict.get(key, default)
Get(d, k, default) == IF k \in DOMAIN d THEN d[k] ELSE default


VARIABLES
    \* durable state
    dbFile,             \* rows of table binaries
    scannedFile,        \* scanned_repos.json: a JSON array
    \* the unchanging search collaborator of SpecStable
    searchWorld,
    \* one invocation of main()
    pc,                 \* "idle", "search", "process", "done", "aborted"
    rpc,                \* next request for the current repository
    gidx,               \* index of the goreleaser name to probe next
    existing_packages, scanned_repos, seen_ids, all_repos, query, page, i,
    entrypoints, version, new_binaries_count,
    \* observation of the runs
    runNo,              \* invocations so far
    prevOutcome,        \* how the invocation before this one ended
    scannedAtStart,     \* scannedFile when this invocation started
    rowsAtStart,        \* dbFile when this invocation started
    saves,              \* writes of scannedFile in this invocation
    probedRepos,        \* repo keys sent a contents or releases request
    resolved,           \* per repository id, resolutions in this invocation
    cmdSeen,            \* answer to the cmd/ probe, while the resolver holds it
    cmdDirs,            \* directory entries that answer listed
    probeSeq,           \* requests, with status, of the latest resolver
                        \* call, or else of the release lookup after it
    lastUpserts,        \* packages upserted for the latest repository
    overlap,            \* the search returned a repository a second time
    scannedHit,         \* the search returned an already scanned repository
    \* wall clock (epoch seconds)
    now,
    \* SpecGateway
    upsertArgs,         \* arguments of the latest call of upsert_binary
    upsertAt,           \* time of that call
    upsertRet,          \* what it returned
    rowsBefore,         \* the table before it
    calls,              \* calls so far
    \* SpecFetcher
    lastProbe,          \* the latest request of the fetcher
    prevProbe           \* the request before it

driverVars ==
    << dbFile, scannedFile, searchWorld, pc, rpc, gidx, existing_packages,
       scanned_repos, seen_ids, all_repos, query, page, i, entrypoints,
       version, new_binaries_count, overlap, scannedHit, runNo, prevOutcome,
       scannedAtStart, rowsAtStart, saves, probedRepos, resolved, cmdSeen, cmdDirs, probeSeq, lastUpserts >>
gatewayVars == << upsertArgs, upsertAt, upsertRet, rowsBefore, calls >>
fetcherVars == << lastProbe, prevProbe >>

vars == << driverVars, now, gatewayVars, fetcherVars >>

durableVars == << dbFile, scannedFile >>
worldVars == << searchWorld, now >>
runHistory == << runNo, prevOutcome, scannedAtStart, rowsAtStart >>
searchVars == << seen_ids, all_repos, query, page, overlap, scannedHit >>
repoVars ==
    << rpc, gidx, entrypoints, version, cmdSeen, cmdDirs, probeSeq,
       lastUpserts >>
processVars ==
    << pc, existing_packages, scanned_repos, i, new_binaries_count, saves,
       probedRepos, resolved >>

(***************************************************************************)
(* Rate-limited fetcher.  Header values are the integers their decimal     *)
(* strings denote.                                                         *)
(***************************************************************************)
\* api_get without the fixed grace
ApiGetWaitNoGrace(h, t) ==
    LET remaining == Get(h, "X-RateLimit-Remaining", 999) IN
    IF remaining < RATE_LIMIT_BUFFER
    THEN LET reset_time == Get(h, "X-RateLimit-Reset", 0)
         IN  Max(reset_time - t, 0)
    ELSE 0

\* api_get: the sleep after a response with headers h received at time t
ApiGetWait(h, t) ==
    LET remaining == Get(h, "X-RateLimit-Remaining", 999) IN
    IF remaining < RATE_LIMIT_BUFFER
    THEN LET reset_time == Get(h, "X-RateLimit-Reset", 0)
         IN  Max(reset_time - t, 0) + FIXED_GRACE
    ELSE 0

\* check_rate_limit: the sleep after the answer r of /rate_limit at time t
CheckRateLimitWait(r, t) ==
    IF r.status # 200 THEN 0
    ELSE LET core == Get(Get(r.json, "resources", << >>), "core", << >>)
             remaining == Get(core, "remaining", 999)
             reset_time == Get(core, "reset", 0)
         IN  IF remaining < RATE_LIMIT_BUFFER
             THEN Max(reset_time - t, 0) + FIXED_GRACE
             ELSE 0

(***************************************************************************)
(* Entrypoint resolver.                                                    *)
(***************************************************************************)
\* the same without the filter on the entry type
CmdEntrypointsAllEntries(r) ==
    IF r.status = 200 /\ r.isList
    THEN [ k \in 1..Len(r.data) |->
             << r.data[k].name, "cmd/" \o r.data[k].name >> ]
    ELSE << >>

\* [(cmd, f"cmd/{cmd}") for the entries of type "dir"], [] unless a listing
CmdEntrypoints(r) ==
    IF r.status = 200 /\ r.isList
    THEN LET cmd_dirs == SelectSeq(r.data, LAMBDA e : e.type = "dir")
         IN  [ k \in 1..Len(cmd_dirs) |->
                 << cmd_dirs[k].name, "cmd/" \o cmd_dirs[k].name >> ]
    ELSE << >>

\* check_file_exists
CheckFileExists(status) == status = 200

\* the root entrypoint with the file name as its suffix
RootEntrypointsMainFile(repo_name) == << << repo_name, "main.go" >> >>

\* [(repo_name, "")]: the repository root is the package
RootEntrypoints(repo_name) == << << repo_name, "" >> >>

\* get_latest_release
GetLatestRelease(r) ==
    IF r.status # 200 THEN "latest" ELSE Get(r.json, "tag_name", "latest")

(***************************************************************************)
(* Persistence gateway.                                                    *)
(***************************************************************************)
BuildStatuses == { "unknown", "confirmed", "failed", "pending" }

\* the row an INSERT creates: the columns not listed take the schema defaults
InsertedRow(a, t) ==
    [ name |-> a.name, package |-> a.package, version |-> a.version,
      description |-> a.description, repo_url |-> a.repo_url,
      stars |-> a.stars,
      build_status |-> "unknown", build_flags |-> "{}",
      build_error |-> None, last_verified |-> None,
      created_at |-> t, updated_at |-> t ]

\* INSERT OR REPLACE instead: the row is rebuilt from the arguments
ConflictUpdateReplace(r, a, t) == InsertedRow(a, t)

\* ON CONFLICT(package) DO UPDATE SET ...
ConflictUpdate(r, a, t) ==
    [ r EXCEPT !.version = a.version, !.description = a.description,
               !.repo_url = a.repo_url, !.stars = a.stars, !.updated_at = t ]

\* The cursor after the statement.  sqlite3 sets lastrowid to the
\* connection's last inserted rowid after every INSERT statement, an integer
\* also when the statement took the DO UPDATE path, and rowcount to the
\* number of rows the statement changed, 1 on either path.
CursorAfterUpsert(inserted) ==
    [ lastrowid |-> [isNone |-> FALSE], rowcount |-> 1 ]

\* upsert_binary on the rows of the table, at time t
UpsertBinary(rows, a, t) ==
    LET conflict == { r \in rows : r.package = a.package }
        cursor == CursorAfterUpsert(conflict = {})
    IN  [ rows |-> IF conflict = {}
                   THEN rows \cup { InsertedRow(a, t) }
                   ELSE (rows \ conflict)
                        \cup { ConflictUpdate(r, a, t) : r \in conflict },
          ret |-> (~cursor.lastrowid.isNone /\ cursor.rowcount = 1) ]

\* get_existing_packages
GetExistingPackages(rows) == { r.package : r \in rows }

\* load_scanned_repos: set(json.load(f)); save_scanned_repos: sorted(repos)
LoadScannedRepos(file) == Range(file)
SaveScannedRepos(repos) == Sorted(repos)

\* package_path of an entrypoint of a repository
PackagePath(repo, package_suffix) ==
    IF package_suffix # ""
    THEN "github.com/" \o repo.owner.login \o "/" \o repo.name
             \o "/" \o package_suffix
    ELSE "github.com/" \o repo.owner.login \o "/" \o repo.name

(***************************************************************************)
(* Discovery driver.                                                       *)
(***************************************************************************)
\* the loop without the test against the ScannedSet
RECURSIVE CollectItemsNoScanned(_, _, _, _, _)
CollectItemsNoScanned(items, k, seen, all, scanned) ==
    IF k > Len(items) THEN [seen_ids |-> seen, all_repos |-> all]
    ELSE LET item == Item(items[k])
         IN  IF item.id \notin seen
             THEN CollectItemsNoScanned(items, k + 1, seen \cup {item.id},
                                        Append(all, item), scanned)
             ELSE CollectItemsNoScanned(items, k + 1, seen, all, scanned)

\* the loop without the test against the ids seen in this run
RECURSIVE CollectItemsNoSeen(_, _, _, _, _)
CollectItemsNoSeen(items, k, seen, all, scanned) ==
    IF k > Len(items) THEN [seen_ids |-> seen, all_repos |-> all]
    ELSE LET item == Item(items[k])
             repo_key == RepoKey(item)
         IN  IF repo_key \notin scanned
             THEN CollectItemsNoSeen(items, k + 1, seen \cup {item.id},
                                     Append(all, item), scanned)
             ELSE CollectItemsNoSeen(items, k + 1, seen, all, scanned)

\* the loop over the items of one page (search_go_tools)
RECURSIVE CollectItems(_, _, _, _, _)
CollectItems(items, k, seen, all, scanned) ==
    IF k > Len(items) THEN [seen_ids |-> seen, all_repos |-> all]
    ELSE LET item == Item(items[k])
             repo_key == RepoKey(item)
         IN  IF item.id \notin seen /\ repo_key \notin scanned
             THEN CollectItems(items, k + 1, seen \cup {item.id},
                               Append(all, item), scanned)
             ELSE CollectItems(items, k + 1, seen, all, scanned)

\* the loop over the entrypoints of one repository (main); st carries the
\* table, the cache, the counter and the packages upserted
RECURSIVE UpsertEntrypoints(_, _, _, _, _, _)
UpsertEntrypoints(eps, k, repo, tag, t, st) ==
    IF k > Len(eps) THEN st
    ELSE LET binary_name == eps[k][1]
             package_path == PackagePath(repo, eps[k][2])
             up == UpsertBinary(st.rows,
                                [ name |-> binary_name,
                                  package |-> package_path,
                                  version |-> tag,
                                  description |->
                                      IF repo.description \in {None, ""}
                                      THEN "" ELSE repo.description,
                                  repo_url |-> repo.html_url,
                                  stars |-> repo.stargazers_count ], t)
         IN  IF package_path \notin st.existing_packages
             THEN UpsertEntrypoints(eps, k + 1, repo, tag, t,
                      [ rows |-> up.rows,
                        existing_packages |->
                            st.existing_packages \cup {package_path},
                        new_binaries_count |-> st.new_binaries_count + 1,
                        upserts |-> Append(st.upserts, package_path) ])
             ELSE UpsertEntrypoints(eps, k + 1, repo, tag, t, st)

NoCmdResponse == [status |-> 0, isList |-> FALSE, data |-> << >>]

\* what every invocation of main() starts from, whatever happens next
BeginRun ==
    /\ pc \in {"idle", "done", "aborted"}
    /\ runNo < MaxRuns
    /\ runNo' = runNo + 1
    /\ prevOutcome' = pc
    /\ scannedAtStart' = scannedFile
    /\ rowsAtStart' = dbFile
    /\ saves' = 0
    /\ probedRepos' = {}
    /\ resolved' = [id \in RepoIds |-> 0]
    /\ cmdSeen' = NoCmdResponse
    /\ cmdDirs' = 0
    /\ probeSeq' = << >>
    /\ lastUpserts' = << >>
    /\ rpc' = "cmd"
    /\ gidx' = 1
    /\ seen_ids' = {}
    /\ all_repos' = << >>
    /\ query' = 1
    /\ page' = 1
    /\ i' = 1
    /\ entrypoints' = << >>
    /\ version' = ""
    /\ overlap' = FALSE
    /\ scannedHit' = FALSE
    /\ new_binaries_count' = 0
    /\ UNCHANGED << dbFile, scannedFile, searchWorld, now >>

\* main, up to the call of search_go_tools
StartRun ==
    /\ BeginRun
    /\ existing_packages' = GetExistingPackages(dbFile)
    /\ scanned_repos' = LoadScannedRepos(scannedFile)
    /\ pc' = "search"

\* the request of check_rate_limit raises: nothing was loaded
StartRunTransportError ==
    /\ BeginRun
    /\ existing_packages' = {}
    /\ scanned_repos' = {}
    /\ pc' = "aborted"

\* leave the page loop of the current query
NextQuery ==
    IF query < Len(Queries)
    THEN /\ query' = query + 1
         /\ page' = 1
         /\ pc' = pc
    ELSE /\ pc' = "process"
         /\ UNCHANGED << query, page >>

\* some item of the page was returned before, on this page or an earlier one
Overlaps(items, seen) ==
    \E k \in 1..Len(items) :
        \/ items[k] \in seen
        \/ \E j \in 1..(k - 1) : items[j] = items[k]

\* some item of the page is in the loaded ScannedSet
HitsScanned(items, scanned) ==
    \E k \in 1..Len(items) : RepoKey(Item(items[k])) \in scanned

\* one iteration of the page loop of search_go_tools, on response r
SearchPage(r) ==
    /\ pc = "search"
    /\ IF r.status # 200 \/ r.items = << >>
       THEN /\ NextQuery
            /\ UNCHANGED << seen_ids, all_repos, overlap, scannedHit >>
       ELSE /\ LET c == CollectItems(r.items, 1, seen_ids, all_repos,
                                     scanned_repos)
               IN  /\ seen_ids' = c.seen_ids
                   /\ all_repos' = c.all_repos
            /\ overlap' = (overlap \/ Overlaps(r.items, seen_ids))
            /\ scannedHit' =
                   (scannedHit \/ HitsScanned(r.items, scanned_repos))
            /\ IF page < MAX_PAGES_PER_QUERY
               THEN /\ page' = page + 1
                    /\ UNCHANGED << pc, query >>
               ELSE NextQuery
    /\ UNCHANGED << durableVars, worldVars, runHistory, repoVars,
                    existing_packages, scanned_repos, i,
                    new_binaries_count, saves, probedRepos, resolved >>

\* the search collaborator answers anything
SearchPageAny == \E r \in SearchResponses : SearchPage(r)

\* the search collaborator answers from its unchanging result lists
SearchPageStable ==
    /\ pc = "search"
    /\ SearchPage(WorldPage(searchWorld[query], page))

\* the search request raises
SearchTransportError ==
    /\ pc = "search"
    /\ pc' = "aborted"
    /\ UNCHANGED << durableVars, worldVars, runHistory, repoVars,
                    searchVars, existing_packages, scanned_repos, i,
                    new_binaries_count, saves, probedRepos, resolved >>

InRepoLoop == pc = "process" /\ i <= Len(all_repos)

\* the end of an iteration that marks only repositories with an entrypoint
EndIterationFoundOnly ==
    /\ scanned_repos' = IF entrypoints = << >> THEN scanned_repos
                        ELSE scanned_repos \cup { RepoKey(all_repos[i]) }
    /\ i' = i + 1
    /\ rpc' = "cmd"

\* the end of one iteration of the loop over repos
EndIteration ==
    /\ scanned_repos' = scanned_repos \cup { RepoKey(all_repos[i]) }
    /\ i' = i + 1
    /\ rpc' = "cmd"

\* find_cli_entrypoints: the probe of cmd/
ProbeCmd ==
    /\ InRepoLoop
    /\ rpc = "cmd"
    /\ \E r \in CmdResponses :
         /\ cmdSeen' = r
         /\ cmdDirs' = Cardinality({ k \in 1..Len(r.data) :
                                        r.isList /\ r.data[k].type = "dir" })
         /\ probeSeq' = << [path |-> "cmd", status |-> r.status] >>
         /\ entrypoints' = CmdEntrypoints(r)
         /\ rpc' = IF CmdEntrypoints(r) # << >> THEN "release" ELSE "main"
    /\ probedRepos' = probedRepos \cup { RepoKey(all_repos[i]) }
    /\ resolved' = [resolved EXCEPT ![all_repos[i].id] = @ + 1]
    /\ lastUpserts' = << >>
    /\ UNCHANGED << durableVars, worldVars, runHistory, searchVars, pc, gidx,
                    version, existing_packages, scanned_repos, i,
                    new_binaries_count, saves >>

\* find_cli_entrypoints: the probe of main.go
ProbeMain ==
    /\ InRepoLoop
    /\ rpc = "main"
    /\ \E st \in FileStatuses :
         /\ probeSeq' = Append(probeSeq, [path |-> "main.go", status |-> st])
         /\ IF CheckFileExists(st)
            THEN /\ entrypoints' = RootEntrypoints(all_repos[i].name)
                 /\ rpc' = "release"
                 /\ gidx' = gidx
            ELSE /\ entrypoints' = entrypoints
                 /\ rpc' = "gorel"
                 /\ gidx' = 1
    /\ UNCHANGED << durableVars, worldVars, runHistory, searchVars, pc,
                    existing_packages, scanned_repos, i, new_binaries_count,
                    saves, probedRepos, resolved, version, cmdSeen, cmdDirs,
                    lastUpserts >>

\* has_goreleaser_config: the probe of one name; after the last miss the
\* resolver returns [] and the iteration of main ends
ProbeGoreleaser ==
    /\ InRepoLoop
    /\ rpc = "gorel"
    /\ cmdSeen' = NoCmdResponse
    /\ \E st \in FileStatuses :
         /\ probeSeq' = Append(probeSeq, [path |-> GORELEASER_PATHS[gidx],
                                          status |-> st])
         /\ IF CheckFileExists(st)
            THEN /\ entrypoints' = RootEntrypoints(all_repos[i].name)
                 /\ rpc' = "release"
                 /\ gidx' = 1
                 /\ UNCHANGED << i, scanned_repos >>
            ELSE IF gidx < Len(GORELEASER_PATHS)
            THEN /\ gidx' = gidx + 1
                 /\ UNCHANGED << entrypoints, rpc, i, scanned_repos >>
            ELSE /\ EndIteration
                 /\ gidx' = 1
                 /\ UNCHANGED entrypoints
    /\ UNCHANGED << durableVars, worldVars, runHistory, searchVars, pc,
                    existing_packages, new_binaries_count, saves,
                    probedRepos, resolved, version, cmdDirs, lastUpserts >>

\* get_latest_release, then the loop over the entrypoints
FetchRelease ==
    /\ InRepoLoop
    /\ rpc = "release"
    /\ cmdSeen' = NoCmdResponse
    /\ \E rel \in ReleaseResponses :
         LET st == UpsertEntrypoints(entrypoints, 1, all_repos[i],
                      GetLatestRelease(rel), now,
                      [ rows |-> dbFile,
                        existing_packages |-> existing_packages,
                        new_binaries_count |-> new_binaries_count,
                        upserts |-> << >> ])
         IN  /\ probeSeq' = << [path |-> "releases/latest",
                                 status |-> rel.status] >>
             /\ version' = GetLatestRelease(rel)
             /\ dbFile' = st.rows
             /\ existing_packages' = st.existing_packages
             /\ new_binaries_count' = st.new_binaries_count
             /\ lastUpserts' = st.upserts
    /\ EndIteration
    /\ UNCHANGED << scannedFile, worldVars, runHistory, searchVars, pc, gidx,
                    entrypoints, saves, probedRepos, resolved, cmdDirs >>

\* the path of the request the loop is about to make
RequestPath ==
    CASE rpc = "cmd" -> "cmd"
      [] rpc = "main" -> "main.go"
      [] rpc = "gorel" -> GORELEASER_PATHS[gidx]
      [] rpc = "release" -> "releases/latest"

\* the same with the ScannedSet saved on the way out
RepoTransportErrorSaves ==
    /\ InRepoLoop
    /\ probeSeq' = Append(IF rpc = "cmd" THEN << >> ELSE probeSeq,
                          [path |-> RequestPath, status |-> 0])
    /\ cmdSeen' = NoCmdResponse
    /\ cmdDirs' = IF rpc = "cmd" THEN 0 ELSE cmdDirs
    /\ resolved' = IF rpc = "cmd"
                   THEN [resolved EXCEPT ![all_repos[i].id] = @ + 1]
                   ELSE resolved
    /\ lastUpserts' = IF rpc = "cmd" THEN << >> ELSE lastUpserts
    /\ probedRepos' = probedRepos \cup { RepoKey(all_repos[i]) }
    /\ pc' = "aborted"
    /\ scannedFile' = SaveScannedRepos(scanned_repos)
    /\ UNCHANGED << dbFile, worldVars, runHistory, searchVars, rpc, gidx,
                    entrypoints, version, existing_packages, scanned_repos,
                    i, new_binaries_count, saves >>

\* the contents or releases request for the current repository raises
RepoTransportError ==
    /\ InRepoLoop
    /\ probeSeq' = Append(IF rpc = "cmd" THEN << >> ELSE probeSeq,
                          [path |-> RequestPath, status |-> 0])
    /\ cmdSeen' = NoCmdResponse
    /\ cmdDirs' = IF rpc = "cmd" THEN 0 ELSE cmdDirs
    /\ resolved' = IF rpc = "cmd"
                   THEN [resolved EXCEPT ![all_repos[i].id] = @ + 1]
                   ELSE resolved
    /\ lastUpserts' = IF rpc = "cmd" THEN << >> ELSE lastUpserts
    /\ probedRepos' = probedRepos \cup { RepoKey(all_repos[i]) }
    /\ pc' = "aborted"
    /\ UNCHANGED << durableVars, worldVars, runHistory, searchVars, rpc, gidx,
                    entrypoints, version, existing_packages, scanned_repos,
                    i, new_binaries_count, saves >>

\* main after the loop: save_scanned_repos, close, summary
FinishRun ==
    /\ pc = "process"
    /\ i > Len(all_repos)
    /\ scannedFile' = SaveScannedRepos(scanned_repos)
    /\ saves' = saves + 1
    /\ pc' = "done"
    /\ UNCHANGED << dbFile, worldVars, runHistory, searchVars, repoVars,
                    existing_packages, scanned_repos, i, new_binaries_count,
                    probedRepos, resolved >>

(***************************************************************************)
(* The variables of a specification that is not running.                   *)
(***************************************************************************)
GatewayIdle ==
    /\ upsertArgs = << >> /\ upsertAt = 0 /\ upsertRet = FALSE
    /\ rowsBefore = {} /\ calls = 0

NoProbe ==
    [ valid |-> FALSE, kind |-> "", start |-> 0, respAt |-> 0,
      returnedAt |-> 0, resp |-> << >> ]

FetcherIdle == lastProbe = NoProbe /\ prevProbe = NoProbe

(***************************************************************************)
(* Spec: one invocation of main() on the durable state earlier invocations *)
(* left behind, against a search collaborator that may answer anything.    *)
(***************************************************************************)
\* a store earlier invocations can have left: empty, or the root package of
\* repository 1 as main recorded it when the repository had fewer stars and
\* an older release
PriorItem == [Item(1) EXCEPT !.stargazers_count = 1]

PriorStores ==
    { {},
      UpsertEntrypoints(<< << PriorItem.name, "" >> >>, 1, PriorItem, "v0", 0,
          [ rows |-> {}, existing_packages |-> {},
            new_binaries_count |-> 0, upserts |-> << >> ]).rows }

ProcessIdle ==
    /\ pc = "idle"
    /\ rpc = "cmd"
    /\ gidx = 1
    /\ existing_packages = {}
    /\ scanned_repos = {}
    /\ seen_ids = {}
    /\ all_repos = << >>
    /\ query = 1
    /\ page = 1
    /\ i = 1
    /\ entrypoints = << >>
    /\ version = ""
    /\ overlap = FALSE
    /\ scannedHit = FALSE
    /\ new_binaries_count = 0
    /\ runNo = 0
    /\ prevOutcome = "none"
    /\ scannedAtStart = << >>
    /\ rowsAtStart = {}
    /\ saves = 0
    /\ probedRepos = {}
    /\ resolved = [id \in RepoIds |-> 0]
    /\ cmdSeen = NoCmdResponse
    /\ cmdDirs = 0
    /\ probeSeq = << >>
    /\ lastUpserts = << >>

DriverIdle == searchWorld = << >> /\ ProcessIdle
StableIdle == ProcessIdle

Init ==
    /\ dbFile \in PriorStores
    /\ scannedFile \in { SaveScannedRepos(S) : S \in SUBSET Keys }
    /\ DriverIdle
    /\ now = 1
    /\ GatewayIdle
    /\ FetcherIdle

\* a step of main leaves the variables of the other specifications alone
DriverFrame == UNCHANGED << gatewayVars, fetcherVars >>

Next ==
    \/ (runNo = 0 /\ StartRun) /\ DriverFrame
    \/ (runNo = 0 /\ StartRunTransportError) /\ DriverFrame
    \/ SearchPageAny /\ DriverFrame
    \/ SearchTransportError /\ DriverFrame
    \/ ProbeCmd /\ DriverFrame
    \/ ProbeMain /\ DriverFrame
    \/ ProbeGoreleaser /\ DriverFrame
    \/ FetchRelease /\ DriverFrame
    \/ RepoTransportError /\ DriverFrame
    \/ FinishRun /\ DriverFrame

Spec == Init /\ [][Next]_vars

(***************************************************************************)
(* SpecStable: invocations, one after the normal completion of the other,  *)
(* from a fresh deployment against an unchanging search collaborator.      *)
(***************************************************************************)
InitStable ==
    /\ dbFile = {}
    /\ scannedFile = << >>
    /\ searchWorld \in Worlds
    /\ StableIdle
    /\ now = 1
    /\ GatewayIdle
    /\ FetcherIdle

NextStable ==
    \/ (pc # "aborted" /\ StartRun) /\ DriverFrame
    \/ (pc # "aborted" /\ StartRunTransportError) /\ DriverFrame
    \/ SearchPageStable /\ DriverFrame
    \/ SearchTransportError /\ DriverFrame
    \/ ProbeCmd /\ DriverFrame
    \/ ProbeMain /\ DriverFrame
    \/ ProbeGoreleaser /\ DriverFrame
    \/ FetchRelease /\ DriverFrame
    \/ RepoTransportError /\ DriverFrame
    \/ FinishRun /\ DriverFrame

SpecStable == InitStable /\ [][NextStable]_vars

(***************************************************************************)
(* SpecGateway: upsert_binary called with arbitrary records on a table     *)
(* whose rows a verification stage may already have marked.                *)
(***************************************************************************)
GatewayPackages == { "github.com/o1/r1", "github.com/o1/r1/cmd/a" }

\* two versions of a package's metadata that differ in every column
GatewayMetadata ==
    { [ version |-> "latest", description |-> "",
        repo_url |-> "https://github.com/o1/r1", stars |-> 1 ],
      [ version |-> "v1", description |-> "d1",
        repo_url |-> "https://github.com/O1/r1", stars |-> 5 ] }

GatewayArgs ==
    { [ name |-> n, package |-> p, version |-> m.version,
        description |-> m.description, repo_url |-> m.repo_url,
        stars |-> m.stars ] :
      n \in { "a", "r1" }, p \in GatewayPackages, m \in GatewayMetadata }

\* rows that were inserted at time 0 and verified since
SeedRows ==
    { [ InsertedRow(CHOOSE a \in GatewayArgs :
                        /\ a.package = "github.com/o1/r1"
                        /\ a.name = "r1" /\ a.stars = 1, 0)
          EXCEPT !.build_status = "confirmed", !.build_flags = "{\"tags\":[]}",
                 !.last_verified = "t0" ],
      [ InsertedRow(CHOOSE a \in GatewayArgs :
                        /\ a.package = "github.com/o1/r1/cmd/a"
                        /\ a.name = "a" /\ a.stars = 1, 0)
          EXCEPT !.build_status = "failed", !.build_error = "exit status 1",
                 !.last_verified = "t0" ] }

InitGateway ==
    /\ dbFile \in SUBSET SeedRows
    /\ scannedFile = << >>
    /\ DriverIdle
    /\ now = 1
    /\ GatewayIdle
    /\ FetcherIdle

\* a call of upsert_binary
UpsertCall ==
    /\ calls < MaxCalls
    /\ \E a \in GatewayArgs :
         LET up == UpsertBinary(dbFile, a, now)
         IN  /\ dbFile' = up.rows
             /\ upsertRet' = up.ret
             /\ upsertArgs' = a
    /\ upsertAt' = now
    /\ rowsBefore' = dbFile
    /\ calls' = calls + 1
    /\ UNCHANGED << scannedFile, worldVars, runHistory, searchVars, repoVars,
                    processVars, fetcherVars >>

\* a second passes
Tick ==
    /\ now < 1 + MaxTicks
    /\ now' = now + 1
    /\ UNCHANGED << durableVars, searchWorld, runHistory, searchVars,
                    repoVars, processVars, gatewayVars, fetcherVars >>

NextGateway == UpsertCall \/ Tick

SpecGateway == InitGateway /\ [][NextGateway]_vars

(***************************************************************************)
(* SpecFetcher: the requests of the fetcher against the wall clock.        *)
(***************************************************************************)
QuotaLevels == { RATE_LIMIT_BUFFER - 1, RATE_LIMIT_BUFFER }
ResetEpochs == { 3, 8 }

\* the rate-limit headers of a response; either may be missing
RateHeaders ==
    { << >> }
    \cup { "X-RateLimit-Remaining" :> r : r \in QuotaLevels }
    \cup { "X-RateLimit-Reset" :> e : e \in ResetEpochs }
    \cup { ("X-RateLimit-Remaining" :> r) @@ ("X-RateLimit-Reset" :> e) :
             r \in QuotaLevels, e \in ResetEpochs }

\* the answers of /rate_limit: an error, or 200 with a body that may lack
\* the core quota or one of its fields
RateLimitResponses ==
    { [status |-> 403, json |-> << >>], [status |-> 200, json |-> << >>] }
    \cup { [status |-> 200, json |-> [resources |-> [core |-> q]]] :
             q \in { << >> }
                   \cup { [remaining |-> r] : r \in QuotaLevels }
                   \cup { [remaining |-> r, reset |-> e] :
                            r \in QuotaLevels, e \in ResetEpochs } }

InitFetcher ==
    /\ dbFile = {}
    /\ scannedFile = << >>
    /\ DriverIdle
    /\ now = 0
    /\ GatewayIdle
    /\ FetcherIdle

FetcherFrame ==
    UNCHANGED << durableVars, searchWorld, runHistory, searchVars, repoVars,
                 processVars, gatewayVars >>

\* api_get: the response arrives lat seconds after the request
ApiGet ==
    /\ \E lat \in 0..MaxLatency, h \in RateHeaders :
         LET t == now + lat
             wait == ApiGetWait(h, t)
         IN  /\ t + wait <= MaxClock
             /\ now' = t + wait
             /\ lastProbe' = [ valid |-> TRUE, kind |-> "api_get",
                               start |-> now, respAt |-> t,
                               returnedAt |-> t + wait,
                               resp |-> [status |-> 200, headers |-> h] ]
    /\ prevProbe' = lastProbe
    /\ FetcherFrame

\* check_rate_limit
CheckRateLimit ==
    /\ \E lat \in 0..MaxLatency, r \in RateLimitResponses :
         LET t == now + lat
             wait == CheckRateLimitWait(r, t)
         IN  /\ t + wait <= MaxClock
             /\ now' = t + wait
             /\ lastProbe' = [ valid |-> TRUE, kind |-> "check_rate_limit",
                               start |-> now, respAt |-> t,
                               returnedAt |-> t + wait, resp |-> r ]
    /\ prevProbe' = lastProbe
    /\ FetcherFrame

\* time.sleep(2) after a search page
InterPageDelay ==
    /\ lastProbe.valid
    /\ lastProbe.kind = "api_get"
    /\ now + PAGE_DELAY <= MaxClock
    /\ now' = now + PAGE_DELAY
    /\ UNCHANGED fetcherVars
    /\ FetcherFrame

NextFetcher == ApiGet \/ CheckRateLimit \/ InterPageDelay

SpecFetcher == InitFetcher /\ [][NextFetcher]_vars

(***************************************************************************)
(* Properties.                                                             *)
(***************************************************************************)
Paths(seq) == [ k \in 1..Len(seq) |-> seq[k].path ]
PackagesOf(rows) == { r.package : r \in rows }
Aborted == pc = "aborted"
Completed == pc = "done"
\* a file probe that was answered, and not with 200
Missed(p) == p.status \notin { 200, 0 }

\* C1: a run that follows a normally completed run against the same search
\* results sends no contents or releases request for a repository of the
\* persisted ScannedSet, inserts no binary record (its summary count is 0)
\* and leaves the persisted ScannedSet as the first run saved it.
C1_SecondRunIdempotent ==
    (runNo >= 2 /\ prevOutcome = "done") =>
        /\ probedRepos \cap Range(scannedAtStart) = {}
        /\ new_binaries_count = 0
        /\ dbFile = rowsAtStart
        /\ scannedFile = scannedAtStart

C1_Witness ==
    /\ runNo = 2 /\ prevOutcome = "done" /\ Completed
    /\ rowsAtStart # {}
    /\ scannedAtStart # << >>
    /\ scannedHit

\* C2: when a run discovers an entrypoint whose package is already in the
\* store, the stored row takes the newly discovered version, description,
\* stars and update time, and the store holds exactly one row for it.
C2_RediscoveryRefreshesRow ==
    (pc = "process" /\ rpc = "cmd" /\ i > 1 /\ probeSeq # << >>
        /\ probeSeq[Len(probeSeq)].path = "releases/latest") =>
        \A k \in 1..Len(entrypoints) :
            LET repo == all_repos[i - 1]
                pkg == PackagePath(repo, entrypoints[k][2])
                stored == { r \in dbFile : r.package = pkg }
            IN  pkg \in PackagesOf(rowsAtStart) =>
                    /\ Cardinality(stored) = 1
                    /\ \A r \in stored :
                         /\ r.version = version
                         /\ r.stars = repo.stargazers_count
                         /\ r.description =
                                (IF repo.description = None
                                 THEN "" ELSE repo.description)
                         /\ r.updated_at = now

\* C3: upsert_binary returns true exactly when the call created a row, that
\* is when no row with the package existed before the call.
C3_ReturnsTrueIffInserted ==
    calls > 0 =>
        (upsertRet <=> upsertArgs.package \notin PackagesOf(rowsBefore))

\* C4: an upsert of an existing package gives the row the new version,
\* description, repo_url, stars and update time and leaves its build_status,
\* build_flags, build_error, last_verified, name and created_at as they
\* were; a first insertion sets build_status to "unknown"; no other row
\* changes.
C4_UpsertFrame ==
    calls > 0 =>
        LET a == upsertArgs
            before == { r \in rowsBefore : r.package = a.package }
            after == { r \in dbFile : r.package = a.package }
        IN  /\ Cardinality(after) = 1
            /\ \A r \in after :
                 /\ r.version = a.version
                 /\ r.description = a.description
                 /\ r.repo_url = a.repo_url
                 /\ r.stars = a.stars
                 /\ r.updated_at = upsertAt
                 /\ before = {} =>
                        /\ r.build_status = "unknown"
                        /\ r.name = a.name
                        /\ r.created_at = upsertAt
                 /\ \A b \in before :
                        /\ r.build_status = b.build_status
                        /\ r.build_flags = b.build_flags
                        /\ r.build_error = b.build_error
                        /\ r.last_verified = b.last_verified
                        /\ r.name = b.name
                        /\ r.created_at = b.created_at
            /\ dbFile \ after = rowsBefore \ before

C4_Witness ==
    /\ calls > 0
    /\ \E b \in rowsBefore :
         /\ b.package = upsertArgs.package
         /\ b.build_status = "confirmed"
         /\ b.stars # upsertArgs.stars
         /\ b.name # upsertArgs.name
         /\ b.updated_at # upsertAt

\* C5: when the probe of cmd/ answers with a listing that has a directory
\* entry, the resolver returns one entrypoint (d, "cmd/" + d) per directory
\* entry d, in listing order, and nothing for the other entries; no main.go
\* and no goreleaser probe is sent for the repository.
C5_CmdShortCircuit ==
    /\ (cmdSeen.status = 200 /\ cmdSeen.isList
          /\ \E k \in 1..Len(cmdSeen.data) : cmdSeen.data[k].type = "dir") =>
            LET d == cmdSeen.data
                dirs == { k \in 1..Len(d) : d[k].type = "dir" }
            IN  /\ rpc = "release"
                /\ Len(entrypoints) = Cardinality(dirs)
                /\ \E f \in [ 1..Len(entrypoints) -> dirs ] :
                     /\ \A x, y \in 1..Len(entrypoints) :
                            x < y => f[x] < f[y]
                     /\ \A x \in 1..Len(entrypoints) :
                            entrypoints[x] =
                                << d[f[x]].name, "cmd/" \o d[f[x]].name >>
    /\ cmdDirs > 0 =>
            \A k \in 1..Len(probeSeq) :
                probeSeq[k].path \in { "cmd", "releases/latest" }

C5_Witness ==
    /\ pc = "process" /\ rpc = "release"
    /\ cmdSeen.isList /\ cmdDirs = 2 /\ Len(cmdSeen.data) = 3
    /\ entrypoints = << << "b", "cmd/b" >>, << "a", "cmd/a" >> >>

\* C6: when the probe of cmd/ yields no entrypoint and main.go exists, the
\* resolver returns the single entrypoint (repo_name, "") and sends no
\* goreleaser probe.
C6_RootMainFile ==
    (pc \in { "process", "aborted" } /\ rpc = "release" /\ cmdDirs = 0
        /\ Len(probeSeq) >= 2 /\ probeSeq[2].path = "main.go"
        /\ probeSeq[2].status = 200) =>
        /\ entrypoints = << << all_repos[i].name, "" >> >>
        /\ Paths(probeSeq) \in { << "cmd", "main.go" >>,
                                 << "cmd", "main.go", "releases/latest" >> }

C6_Witness ==
    /\ pc = "process" /\ rpc = "release"
    /\ cmdSeen.status = 200 /\ cmdSeen.isList /\ cmdDirs = 0
    /\ Paths(probeSeq) = << "cmd", "main.go" >>
    /\ probeSeq[2].status = 200
    /\ Len(entrypoints) = 1

\* C7: a repository for which cmd/ yields nothing and neither main.go nor a
\* goreleaser file exists resolves to no entrypoint, gets no binary record
\* and no release lookup, and is added to the ScannedSet; after a normal
\* completion every visited candidate is in the persisted ScannedSet.
C7_FruitlessStillScanned ==
    /\ (pc \in { "process", "done" } /\ cmdDirs = 0 /\ i > 1
          /\ Len(probeSeq) = 2 + Len(GORELEASER_PATHS)
          /\ \A k \in 2..Len(probeSeq) : Missed(probeSeq[k])) =>
            /\ entrypoints = << >>
            /\ lastUpserts = << >>
            /\ \A r \in dbFile \ rowsAtStart :
                   r.repo_url # all_repos[i - 1].html_url
            /\ \A k \in 1..Len(probeSeq) :
                   probeSeq[k].path # "releases/latest"
            /\ RepoKey(all_repos[i - 1]) \in scanned_repos
    /\ Completed =>
            /\ \A k \in 1..Len(all_repos) :
                   RepoKey(all_repos[k]) \in Range(scannedFile)
            /\ \A id \in RepoIds :
                   resolved[id] > 0 => RepoKey(Item(id)) \in Range(scannedFile)

C7_Witness ==
    /\ Completed
    /\ Len(all_repos) >= 1
    /\ Len(probeSeq) = 2 + Len(GORELEASER_PATHS)
    /\ \A k \in 2..Len(probeSeq) : Missed(probeSeq[k])
    /\ RepoKey(all_repos[Len(all_repos)]) \notin Range(scannedAtStart)
    /\ RepoKey(all_repos[Len(all_repos)]) \in Range(scannedFile)

\* what a response reports as remaining quota and as reset epoch
ReportedQuota(p) ==
    IF p.kind = "api_get"
    THEN [ remaining |->
               IF "X-RateLimit-Remaining" \in DOMAIN p.resp.headers
               THEN { p.resp.headers["X-RateLimit-Remaining"] } ELSE {},
           reset |->
               IF "X-RateLimit-Reset" \in DOMAIN p.resp.headers
               THEN p.resp.headers["X-RateLimit-Reset"] ELSE 0 ]
    ELSE LET core ==
                 IF p.resp.status = 200
                    /\ "resources" \in DOMAIN p.resp.json
                 THEN p.resp.json.resources.core ELSE << >>
         IN  [ remaining |->
                   IF "remaining" \in DOMAIN core
                   THEN { core.remaining } ELSE {},
               reset |-> IF "reset" \in DOMAIN core THEN core.reset ELSE 0 ]

\* C8: after a request whose response reports a remaining quota below 10,
\* the next request starts no earlier than max(reset - now, 0) + 5 seconds
\* after that response; a response that reports a quota of 10 or more, or
\* none, adds no delay.
C8_RateLimitWait ==
    /\ (prevProbe.valid
          /\ \E q \in ReportedQuota(prevProbe).remaining : q < 10) =>
            lastProbe.start - prevProbe.respAt
                >= Max(ReportedQuota(prevProbe).reset - prevProbe.respAt, 0)
                   + 5
    /\ (lastProbe.valid
          /\ \A q \in ReportedQuota(lastProbe).remaining : q >= 10) =>
            lastProbe.returnedAt = lastProbe.respAt

C8_Witness ==
    /\ prevProbe.valid /\ prevProbe.kind = "api_get"
    /\ \E q \in ReportedQuota(prevProbe).remaining : q < 10
    /\ ReportedQuota(prevProbe).reset > prevProbe.respAt
    /\ lastProbe.valid
    /\ lastProbe.start = ReportedQuota(prevProbe).reset + 5

\* C9: when a transport failure aborts the run, the persisted ScannedSet is
\* what it was when the run started and the binary records upserted before
\* the abort are in the store; the ScannedSet file is written once, at
\* normal completion, and at no other point.
C9_AbortKeepsScannedFile ==
    /\ Aborted =>
            /\ scannedFile = scannedAtStart
            /\ rowsAtStart \subseteq dbFile
            /\ Cardinality(PackagesOf(dbFile) \ PackagesOf(rowsAtStart))
                   = new_binaries_count
    /\ runNo > 0 =>
            /\ saves = (IF Completed THEN 1 ELSE 0)
            /\ ~Completed => scannedFile = scannedAtStart

C9_Witness ==
    /\ Aborted
    /\ new_binaries_count > 0
    /\ scanned_repos # Range(scannedAtStart)
    /\ scannedFile = scannedAtStart

\* C10: the candidate list holds every repository id at most once and no
\* repository whose key is in the ScannedSet loaded at the start of the run;
\* a repository is resolved at most once per run and an already scanned one
\* gets no contents or releases request.
C10_CandidatesDeduped ==
    /\ \A x, y \in 1..Len(all_repos) :
           x # y => all_repos[x].id # all_repos[y].id
    /\ \A x \in 1..Len(all_repos) :
           RepoKey(all_repos[x]) \notin Range(scannedAtStart)
    /\ \A id \in RepoIds : resolved[id] <= 1
    /\ probedRepos \cap Range(scannedAtStart) = {}

C10_Witness ==
    /\ Completed
    /\ overlap /\ scannedHit
    /\ Len(all_repos) >= 1
    /\ \E id \in RepoIds : resolved[id] = 1

====
